---- MODULE Spec2Model ----
(***************************************************************************)
(* Model of canopy.llm.openai.OpenAILLM: construction, chat_completion     *)
(* (plain and streamed), enforced_function_call under its tenacity retry   *)
(* policy, and the translation of provider errors.                         *)
(*                                                                         *)
(* Python values are represented as follows.  A dict is a function whose   *)
(* DOMAIN is its key set.  An Optional argument is a sequence of length    *)
(* at most one (<<>> is None, <<v>> is v), except max_tokens, whose None   *)
(* is the string "None".  A str that the code concatenates is a sequence   *)
(* of characters.  The provider (the openai client) is the environment:    *)
(* each request is answered by any of the responses it can give, and the   *)
(* variable served records what it has answered during the current call.   *)
(***************************************************************************)
EXTENDS Integers, Sequences, FiniteSets, TLC

VARIABLES pc, ctor, model_name, default_model_params,
          call, model_params, chat_history,
          served, requests, attempt, ret, delivered

vars == <<pc, ctor, model_name, default_model_params,
          call, model_params, chat_history,
          served, requests, attempt, ret, delivered>>

-----------------------------------------------------------------------------
(* Bounds of the model *)

MaxHistory == 2
MaxChunks == 2

-----------------------------------------------------------------------------
(* Python values *)

None == "None"
NoneOpt == <<>>
Some(v) == <<v>>
EmptyDict == [k \in {} |-> None]

\* dict.update(other): keys of other win
DictUpdate(d, other) ==
    [k \in DOMAIN d \cup DOMAIN other |->
        IF k \in DOMAIN other THEN other[k] ELSE d[k]]

\* d[key] = value
DictSet(d, key, value) ==
    [k \in DOMAIN d \cup {key} |-> IF k = key THEN value ELSE d[k]]

\* the dict left by d.pop(key, default)
DictWithout(d, key) == [k \in DOMAIN d \ {key} |-> d[k]]

\* the value returned by d.pop(key, default)
DictPop(d, key, default) == IF key \in DOMAIN d THEN d[key] ELSE default

\* `model_params or {}`: None and the empty dict are both falsy
OrEmptyDict(opt) == IF opt = NoneOpt THEN EmptyDict ELSE opt[1]

-----------------------------------------------------------------------------
(* Input domains *)

ModelNames == {"gpt-3.5-turbo", "gpt-4"}
DefaultValues == {"0.2"}
CallValues == {"0.9"}
DefaultTokenValues == {"16"}
CallTokenValues == {"32"}
MaxTokensArgs == {None, "64"}

DictsOver(keys, Values(_)) ==
    UNION {{d \in [S -> UNION {Values(k) : k \in S}] :
                \A k \in S : d[k] \in Values(k)} : S \in SUBSET keys}

KwargValues(k) ==
    CASE k = "model" -> ModelNames
      [] k = "max_tokens" -> DefaultTokenValues
      [] OTHER -> DefaultValues

ParamValues(k) ==
    CASE k = "model" -> {"gpt-4"}
      [] k = "max_tokens" -> CallTokenValues
      [] OTHER -> CallValues

ParamKeys == {"temperature", "max_tokens", "model"}
KwargsArgs == DictsOver(ParamKeys, KwargValues)
ModelParamsArgs == {NoneOpt} \cup {Some(d) : d \in DictsOver(ParamKeys, ParamValues)}

Prompts == {<<"U", "s", "e">>, <<"A">>}
Contexts == {[content |-> <<"r", "e", "d">>, num_tokens |-> 7]}
ContextArgs == {NoneOpt} \cup {Some(c) : c \in Contexts}

Conversation ==
    <<[role |-> "user", content |-> <<"q", "1">>],
      [role |-> "assistant", content |-> <<"a", "1">>],
      [role |-> "user", content |-> <<"q", "2">>]>>
Histories == {SubSeq(Conversation, i, j) : i \in 1..2, j \in 0..MaxHistory}


-----------------------------------------------------------------------------
(* The provider *)

\* str(e) of a provider error
ErrorText == "Connection error."

\* parsed bodies of e.response.json()
ErrorBodies ==
    { EmptyDict,
      "error" :> ("message" :> "quota exceeded"),
      "error" :> EmptyDict,
      "message" :> "bad gateway",
      ("error" :> ("message" :> "quota exceeded")) @@ ("message" :> "bad gateway") }

\* an openai.OpenAIError: its str() and the body of its response, if it
\* has a response whose body parses
ProviderErrors ==
    {[text |-> ErrorText, response |-> r] :
        r \in {NoneOpt} \cup {Some(b) : b \in ErrorBodies}}

\* the arguments string of the tool call of a completion
ArgsValid == "{\"queries\": [\"capital of France\"]}"
ArgsValidOther == "{\"queries\": [\"Paris\"]}"
ArgsTruncated == "{\"queries\": [\"capital of"
ArgsNoQueries == "{\"query\": [\"capital of France\"]}"
ArgStrings == {ArgsValid, ArgsValidOther, ArgsTruncated, ArgsNoQueries}

\* what the provider does with one request of enforced_function_call:
\* it raises a provider error or returns a completion with these arguments
ProviderRaises == "OpenAIError"
Responses == {ProviderRaises} \cup ArgStrings

\* what the provider hands back to chat_completion and to the consumer of
\* a streamed completion
RawResponse == "chat.completion"
RawStream == "stream"
RawChunk == "chat.completion.chunk"
EndOfStream == "end of stream"

\* the function declaration passed to enforced_function_call
TheFunction ==
    [name |-> "query_knowledgebase",
     parameters |-> [required |-> {"queries"}]]

-----------------------------------------------------------------------------
(* Retry policy of enforced_function_call *)

MaxAttempts == 3

RetryTypesAlsoRuntimeError == {"JSONDecodeError", "ValidationError", "RuntimeError"}

RetryTypes == {"JSONDecodeError", "ValidationError"}

\* tenacity retries after attempt n failed with an error of type t
ShouldRetryIgnoresJson(t, n) == t = "ValidationError" /\ n < MaxAttempts

ShouldRetry(t, n) == t \in RetryTypes /\ n < MaxAttempts

\* the error raised when the last permitted attempt failed with type t
ExhaustedErrorWrapped(t) == "RetryError"

ExhaustedError(t) == t

\* the error that leaves the decorated function after attempt n raised t
RaisedType(t, n) ==
    IF t \in RetryTypes /\ n >= MaxAttempts THEN ExhaustedError(t) ELSE t

-----------------------------------------------------------------------------
(* Parameter merge and model resolution *)

DeepCopy(d) == d

\* model_params_dict before the pop of "model"
MergedParams(defaults, mp, max_tokens) ==
    LET d == DictUpdate(DeepCopy(defaults), OrEmptyDict(mp))
    IN  IF max_tokens # None THEN DictSet(d, "max_tokens", max_tokens) ELSE d

\* model = model_params_dict.pop("model", self.model_name)
ResolveModel(merged, self_model_name) == DictPop(merged, "model", self_model_name)

\* model_params_dict after the pop
GenerationParams(merged) == DictWithout(merged, "model")

\* what the merge leaves in self.default_model_params: the merge works on
\* a deep copy, so the instance's mapping is not touched
DefaultsAfterMergeAliased(defaults, merged) == GenerationParams(merged)

DefaultsAfterMerge(defaults, merged) == defaults

-----------------------------------------------------------------------------
(* Messages *)

ContextPrefix == <<"\n", "C", "o", "n", "t", "e", "x", "t", ":", " ">>

\* Context.to_text()
ToText(context) == context.content

SystemMessage(content) == [role |-> "system", content |-> content]

\* pydantic .dict() of a message
MessageDict(m) == [role |-> m.role, content |-> m.content]

SystemPromptWithContextNoPrefix(system_prompt, context) ==
    IF context = NoneOpt THEN system_prompt
    ELSE system_prompt \o ToText(context[1])

SystemPromptWithContext(system_prompt, context) ==
    IF context = NoneOpt THEN system_prompt
    ELSE system_prompt \o ContextPrefix \o ToText(context[1])

BuildMessages(system_message, history) ==
    <<MessageDict(SystemMessage(system_message))>>
        \o [i \in 1..Len(history) |-> MessageDict(history[i])]

-----------------------------------------------------------------------------
(* Error translation *)

\* OpenAILLM._format_openai_error; a missing response, an unparsable body
\* or a missing key raises inside the try and falls back to str(e)
FormatOpenAIError(e) ==
    IF e.response = NoneOpt THEN e.text
    ELSE LET response == e.response[1]
         IN  IF "error" \in DOMAIN response
             THEN IF "message" \in DOMAIN response["error"]
                  THEN response["error"]["message"]
                  ELSE e.text
             ELSE IF "message" \in DOMAIN response
                  THEN response["message"]
                  ELSE e.text

ClassName == <<"O", "p", "e", "n", "A", "I", "L", "L", "M">>

\* str.replace(old, new)
RECURSIVE Replace(_, _, _)
Replace(s, old, new) ==
    IF Len(s) < Len(old) THEN s
    ELSE IF SubSeq(s, 1, Len(old)) = old
         THEN new \o Replace(SubSeq(s, Len(old) + 1, Len(s)), old, new)
         ELSE <<Head(s)>> \o Replace(Tail(s), old, new)

ProviderName == Replace(ClassName, <<"L", "L", "M">>, <<>>)

\* the interpolated fields of the message of the RuntimeError raised by
\* OpenAILLM._handle_chat_error
ChatErrorMessage(self_model_name, e) ==
    [provider |-> ProviderName,
     model |-> self_model_name,
     underlying |-> FormatOpenAIError(e)]

NoMessage == [provider |-> <<>>, model |-> "", underlying |-> ""]

HandleChatErrorReraises == "OpenAIError"

\* the type of the error _handle_chat_error raises
HandleChatErrorRaises == "RuntimeError"


-----------------------------------------------------------------------------
(* Parsing and validation of the returned arguments *)

\* json.loads: the parsed value, or NoneOpt where it raises JSONDecodeError
JsonLoads(s) ==
    CASE s = ArgsValid -> Some([queries |-> <<"capital of France">>])
      [] s = ArgsValidOther -> Some([queries |-> <<"Paris">>])
      [] s = ArgsNoQueries -> Some([query |-> <<"capital of France">>])
      [] OTHER -> NoneOpt

\* jsonschema.validate(instance, schema) does not raise
Validates(instance, schema) == schema.required \subseteq DOMAIN instance

\* the type of the error raised by lines 226-229 on these arguments, or
\* "ok" when the arguments are returned
ParseOutcome(s, function) ==
    IF JsonLoads(s) = NoneOpt THEN "JSONDecodeError"
    ELSE IF ~Validates(JsonLoads(s)[1], function.parameters) THEN "ValidationError"
    ELSE "ok"

-----------------------------------------------------------------------------
(* Requests *)

\* create(model=, messages=, stream=, **model_params_dict)
ChatRequest(model, messages, stream, params) ==
    [model |-> model, messages |-> messages, stream |-> stream,
     tools |-> <<>>, tool_choice |-> "", params |-> params]

\* create(model=, messages=, tools=, tool_choice=, max_tokens=max_tokens,
\* **model_params_dict) is a TypeError (a keyword given twice) when the
\* merged parameters hold "max_tokens" themselves
KeywordClash(params) == "max_tokens" \in DOMAIN params

FunctionRequest(model, messages, function, max_tokens, params) ==
    [model |-> model, messages |-> messages, stream |-> FALSE,
     tools |-> <<[type |-> "function", function |-> function]>>,
     tool_choice |-> function.name,
     params |-> DictSet(params, "max_tokens", max_tokens)]

-----------------------------------------------------------------------------
(* State *)

NoCtor == [model_name |-> "", kwargs |-> EmptyDict, connected |-> FALSE]
NoCall == [op |-> "none", system_prompt |-> <<>>, chat_history |-> <<>>,
           context |-> NoneOpt, stream |-> FALSE, max_tokens |-> None,
           model_params |-> NoneOpt]
\* how a call ended: the kind of value returned or the type of the error
\* raised, the arguments returned, the attempt that raised, the message of
\* a RuntimeError and the provider error it was raised from (__context__)
NoRet == [kind |-> "none", args |-> <<>>, attempt |-> 0, message |-> NoMessage,
          context |-> NoneOpt]

Returned(kind) == [NoRet EXCEPT !.kind = kind]
Raised(kind, n) == [NoRet EXCEPT !.kind = kind, !.attempt = n]

Init ==
    /\ pc = "new"
    /\ ctor = NoCtor
    /\ model_name = ""
    /\ default_model_params = EmptyDict
    /\ call = NoCall
    /\ model_params = NoneOpt
    /\ chat_history = <<>>
    /\ served = <<>>
    /\ requests = <<>>
    /\ attempt = 0
    /\ ret = NoRet
    /\ delivered = <<>>

-----------------------------------------------------------------------------
(* OpenAILLM.__init__ *)

\* the error openai.OpenAI() raises when it finds no credentials
ConnectError == [text |-> "The api_key client option must be set", response |-> NoneOpt]

CtorOutcomeModelAllowed(kwargs, connected) ==
    IF ~connected THEN "RuntimeError" ELSE "ok"

\* how construction ends: the client is built first, the defaults are
\* checked after it
CtorOutcome(kwargs, connected) ==
    IF ~connected THEN "RuntimeError"
    ELSE IF "model" \in DOMAIN kwargs THEN "ValueError"
    ELSE "ok"

Construct(name, kwargs, connected) ==
    /\ pc = "new"
    /\ ctor' = [model_name |-> name, kwargs |-> kwargs, connected |-> connected]
    /\ model_name' = name
    /\ default_model_params' = IF connected THEN kwargs ELSE default_model_params
    /\ LET outcome == CtorOutcome(kwargs, connected)
       IN  /\ pc' = IF outcome = "ok" THEN "idle" ELSE "ctor_failed"
           /\ ret' = CASE outcome = "ok" -> NoRet
                       [] outcome = "ValueError" -> Raised("ValueError", 0)
                       [] OTHER ->
                            [Raised("RuntimeError", 0) EXCEPT
                                !.message = [NoMessage EXCEPT !.underlying =
                                                FormatOpenAIError(ConnectError)],
                                !.context = Some(ConnectError)]
    /\ UNCHANGED <<call, model_params, chat_history, served, requests,
                   attempt, delivered>>


-----------------------------------------------------------------------------
(* OpenAILLM.chat_completion *)

\* ChatResponse.parse_obj / StreamingChatChunk.parse_obj
ChatResponseParse(raw) == [type |-> "ChatResponse", obj |-> raw, index |-> 1]
StreamingChatChunkParse(raw, i) == [type |-> "StreamingChatChunk", obj |-> raw, index |-> i]

\* The call up to its return or raise.  answer is NoneOpt when the provider
\* accepts the request and Some(e) when create() raises e.
ChatCompletion(system_prompt, history, context, stream, max_tokens, mp, answer) ==
    /\ pc = "idle"
    /\ call' = [op |-> "chat_completion", system_prompt |-> system_prompt,
                chat_history |-> history, context |-> context,
                stream |-> stream, max_tokens |-> max_tokens,
                model_params |-> mp]
    /\ model_params' = mp
    /\ chat_history' = history
    /\ LET merged == MergedParams(default_model_params, mp, max_tokens)
           model == ResolveModel(merged, model_name)
           params == GenerationParams(merged)
           messages == BuildMessages(
                           SystemPromptWithContext(system_prompt, context), history)
       IN  /\ default_model_params' = DefaultsAfterMerge(default_model_params, merged)
           /\ requests' = <<ChatRequest(model, messages, stream, params)>>
    /\ attempt' = 1
    /\ IF answer # NoneOpt
       THEN /\ served' = <<ProviderRaises>>
            /\ ret' = [Raised(HandleChatErrorRaises, 1) EXCEPT
                           !.message = ChatErrorMessage(model_name, answer[1]),
                           !.context = answer]
            /\ delivered' = <<>>
            /\ pc' = "done"
       ELSE IF stream
            THEN /\ served' = <<RawStream>>
                 /\ ret' = Returned("iterator")
                 /\ delivered' = <<>>
                 /\ pc' = "stream"
            ELSE /\ served' = <<RawResponse>>
                 /\ ret' = Returned("ChatResponse")
                 /\ delivered' = <<ChatResponseParse(RawResponse)>>
                 /\ pc' = "done"
    /\ UNCHANGED <<ctor, model_name>>

\* The consumer asks streaming_iterator for its next element: the provider
\* sends a chunk, fails, or ends the stream.
StreamEvents == {RawChunk, ProviderRaises, EndOfStream}

NextChunk(event) ==
    /\ pc = "stream"
    /\ served' = Append(served, event)
    /\ CASE event = RawChunk ->
              /\ Len(delivered) < MaxChunks
              /\ delivered' = Append(delivered,
                                  StreamingChatChunkParse(RawChunk, Len(delivered) + 1))
              /\ UNCHANGED <<pc, ret>>
         [] event = ProviderRaises ->
              /\ ret' = Raised(ProviderRaises, 1)
              /\ pc' = "done"
              /\ UNCHANGED delivered
         [] OTHER ->
              /\ pc' = "done"
              /\ UNCHANGED <<ret, delivered>>
    /\ UNCHANGED <<ctor, model_name, default_model_params, call, model_params,
                   chat_history, requests, attempt>>

-----------------------------------------------------------------------------
(* OpenAILLM.enforced_function_call under @retry *)

\* The caller invokes the decorated function.
EnforcedFunctionCall(system_prompt, history, max_tokens, mp) ==
    /\ pc = "idle"
    /\ call' = [op |-> "enforced_function_call", system_prompt |-> system_prompt,
                chat_history |-> history, context |-> NoneOpt,
                stream |-> FALSE, max_tokens |-> max_tokens,
                model_params |-> mp]
    /\ model_params' = mp
    /\ chat_history' = history
    /\ pc' = "efc"
    /\ UNCHANGED <<ctor, model_name, default_model_params, served, requests,
                   attempt, ret, delivered>>

\* One attempt: the body of the function, then the decision of the retry
\* policy.  answer is what the provider does with the request, e the error
\* it raises when answer is ProviderRaises.
Attempt(answer, e) ==
    /\ pc = "efc"
    /\ attempt' = attempt + 1
    /\ LET n == attempt + 1
           merged == MergedParams(default_model_params, model_params, call.max_tokens)
           model == ResolveModel(merged, model_name)
           params == GenerationParams(merged)
           messages == BuildMessages(call.system_prompt, chat_history)
           clash == KeywordClash(params)
           outcome == IF clash THEN "TypeError"
                      ELSE IF answer = ProviderRaises THEN HandleChatErrorRaises
                      ELSE ParseOutcome(answer, TheFunction)
       IN  /\ default_model_params' = DefaultsAfterMerge(default_model_params, merged)
           /\ IF clash
              THEN UNCHANGED <<requests, served>>
              ELSE /\ requests' = Append(requests,
                          FunctionRequest(model, messages, TheFunction,
                                          call.max_tokens, params))
                   /\ served' = Append(served, answer)
           /\ IF outcome = "ok"
              THEN /\ ret' = [Returned("ok") EXCEPT
                                  !.args = JsonLoads(answer), !.attempt = n]
                   /\ pc' = "done"
              ELSE IF ShouldRetry(outcome, n)
                   THEN UNCHANGED <<pc, ret>>
                   ELSE /\ ret' = IF ~clash /\ answer = ProviderRaises
                                   THEN [Raised(RaisedType(outcome, n), n) EXCEPT
                                            !.message = ChatErrorMessage(model_name, e),
                                            !.context = Some(e)]
                                   ELSE Raised(RaisedType(outcome, n), n)
                        /\ pc' = "done"
    /\ UNCHANGED <<ctor, model_name, call, model_params, chat_history, delivered>>

-----------------------------------------------------------------------------
(* The caller is done with the result of a call and may call again. *)

Return ==
    /\ pc \in {"done", "stream"}
    /\ pc' = "idle"
    /\ call' = NoCall
    /\ model_params' = NoneOpt
    /\ chat_history' = <<>>
    /\ served' = <<>>
    /\ requests' = <<>>
    /\ attempt' = 0
    /\ ret' = NoRet
    /\ delivered' = <<>>
    /\ UNCHANGED <<ctor, model_name, default_model_params>>

-----------------------------------------------------------------------------

Next ==
    \/ \E name \in ModelNames, kwargs \in KwargsArgs, connected \in BOOLEAN :
          Construct(name, kwargs, connected)
    \/ \E system_prompt \in Prompts, history \in Histories, context \in ContextArgs,
          stream \in BOOLEAN, max_tokens \in MaxTokensArgs, mp \in ModelParamsArgs,
          answer \in {NoneOpt} \cup {Some(e) : e \in ProviderErrors} :
          ChatCompletion(system_prompt, history, context, stream, max_tokens, mp, answer)
    \/ \E event \in StreamEvents : NextChunk(event)
    \/ \E system_prompt \in Prompts, history \in Histories,
          max_tokens \in MaxTokensArgs, mp \in ModelParamsArgs :
          EnforcedFunctionCall(system_prompt, history, max_tokens, mp)
    \/ \E answer \in Responses, e \in ProviderErrors : Attempt(answer, e)
    \/ Return

Spec == Init /\ [][Next]_vars


-----------------------------------------------------------------------------
(* Vocabulary of the properties *)

IsChat == call.op = "chat_completion"
IsEFC == call.op = "enforced_function_call"
Ended == pc \in {"done", "stream"}

JsonFailures == {ArgsTruncated}
SchemaFailures == {ArgsNoQueries}
ValidResponses == {ArgsValid, ArgsValidOther}

\* the provider has answered exactly k requests of the call, each with
\* arguments that do not parse
OnlyJsonFailures(k) ==
    /\ Len(served) = k
    /\ \A i \in 1..k : served[i] \in JsonFailures

\* ... and then one more, with valid arguments
JsonFailuresThenValid(k) ==
    /\ Len(served) = k + 1
    /\ \A i \in 1..k : served[i] \in JsonFailures
    /\ served[k + 1] \in ValidResponses

\* the call goes on after the failures, and returns the valid arguments
\* once they arrive
SucceedsAfterFailures(k) ==
    /\ OnlyJsonFailures(k) => pc = "efc" /\ ret.kind = "none"
    /\ JsonFailuresThenValid(k) =>
          /\ pc = "done"
          /\ ret.kind = "ok"
          /\ ret.args = JsonLoads(served[k + 1])
          /\ Len(requests) = k + 1
          /\ Len(requests) <= 3

\* C1 (as stated): after 1 to 3 consecutive JSON-parse failures followed by
\* a valid response, the one invocation of enforced_function_call succeeds
\* with the valid parsed arguments, within 3 provider requests.
C1_SucceedsAfterUpTo3Failures ==
    IsEFC => \A k \in 1..3 : SucceedsAfterFailures(k)

\* C1 (amended): the same for 1 to 2 failures; the third consecutive
\* failure ends the call with the JSONDecodeError of the third attempt, so
\* a response that would follow it is never asked for.
C1_SucceedsAfterUpTo2Failures ==
    IsEFC =>
       /\ \A k \in 1..2 : SucceedsAfterFailures(k)
       /\ OnlyJsonFailures(3) =>
             /\ pc = "done"
             /\ ret.kind = "JSONDecodeError"
             /\ ret.attempt = 3
             /\ Len(requests) = 3

C1_Witness ==
    /\ IsEFC
    /\ JsonFailuresThenValid(2)
    /\ ret.kind = "ok"

\* the type of the error an attempt raises on these returned arguments
ErrorTypeOf(s) ==
    IF s \in JsonFailures THEN "JSONDecodeError" ELSE "ValidationError"

\* C2: when every attempt of enforced_function_call ended in a JSON-parse
\* or schema-validation error, the call has issued exactly 3 requests and
\* raises the error of the third attempt with its own type.
C2_ThirdErrorReraised ==
    ( /\ IsEFC
      /\ pc = "done"
      /\ Len(served) >= 1
      /\ \A i \in 1..Len(served) : served[i] \in JsonFailures \cup SchemaFailures )
    => /\ Len(requests) = 3
       /\ Len(served) = 3
       /\ ret.kind = ErrorTypeOf(served[3])
       /\ ret.kind \in {"JSONDecodeError", "ValidationError"}
       /\ ret.attempt = 3

C2_Witness ==
    /\ IsEFC
    /\ pc = "done"
    /\ Len(served) = 3
    /\ served[1] \in JsonFailures
    /\ served[2] \in JsonFailures
    /\ served[3] \in SchemaFailures
    /\ ret.kind = "ValidationError"

C4_MaxTokensSent ==
    (Ended /\ call.max_tokens # None)
    => /\ Len(requests) >= 1
       /\ \A i \in 1..Len(requests) :
             /\ "max_tokens" \in DOMAIN requests[i].params
             /\ requests[i].params["max_tokens"] = call.max_tokens

\* the keys of the merged parameters that the max_tokens argument does not
\* decide
MergeKeys(d) ==
    (DOMAIN d \ {"model"}) \ (IF call.max_tokens # None THEN {"max_tokens"} ELSE {})

\* C5: a call of chat_completion or enforced_function_call has issued a
\* request; it carries the per-call value of every key given per call, the
\* default value of every key given only in the defaults, never the key
\* "model", and as model the per-call "model" if given, else model_name.
C5_PerCallWins ==
    Ended =>
       /\ Len(requests) >= 1
       /\ \A i \in 1..Len(requests) :
            LET r == requests[i]
                mp == OrEmptyDict(call.model_params)
            IN  /\ \A k \in MergeKeys(mp) :
                      k \in DOMAIN r.params /\ r.params[k] = mp[k]
                /\ \A k \in MergeKeys(ctor.kwargs) \ DOMAIN mp :
                      k \in DOMAIN r.params /\ r.params[k] = ctor.kwargs[k]
                /\ "model" \notin DOMAIN r.params
                /\ r.model = IF "model" \in DOMAIN mp THEN mp["model"]
                             ELSE ctor.model_name

\* a provider error occurred at some point of the call
ProviderFailed == \E i \in 1..Len(served) : served[i] = ProviderRaises

\* C6 (as stated): in chat_completion, streamed or not, a provider error at
\* any point of the call reaches the caller as the RuntimeError, and nothing
\* was delivered before it.
C6_UniformFailureNoPartial ==
    (IsChat /\ ProviderFailed)
    => /\ ret.kind = "RuntimeError"
       /\ delivered = <<>>

\* C6 (amended): a provider error raised by the request reaches the caller
\* as the RuntimeError with nothing delivered, streamed or not; a provider
\* error raised while the chunks are consumed reaches the consumer as the
\* provider error itself, after the typed chunks that arrived before it.
C6_RequestFailureUniform ==
    IsChat =>
       \A i \in 1..Len(served) :
          served[i] = ProviderRaises =>
             /\ i = Len(served)
             /\ pc = "done"
             /\ IF i = 1
                THEN /\ ret.kind = "RuntimeError"
                     /\ delivered = <<>>
                ELSE /\ call.stream
                     /\ ret.kind = "OpenAIError"
                     /\ ret.message = NoMessage
                     /\ Len(delivered) = i - 2
                     /\ \A j \in 1..Len(delivered) :
                           /\ delivered[j].type = "StreamingChatChunk"
                           /\ served[j + 1] = RawChunk

C6_Witness ==
    /\ IsChat
    /\ call.stream
    /\ Len(served) = 3
    /\ served[3] = ProviderRaises
    /\ Len(delivered) = 1
    /\ ret.kind = "OpenAIError"

\* C7 (as stated): a constructor call whose defaults contain "model" fails
\* with ValueError and produces no instance, whether or not the provider
\* connection can be established.
C7_ModelKeyValueError ==
    (pc # "new" /\ "model" \in DOMAIN ctor.kwargs)
    => /\ pc = "ctor_failed"
       /\ ret.kind = "ValueError"

\* C7 (amended): such a constructor call produces no instance; it fails with
\* ValueError when the provider connection can be established, and with the
\* RuntimeError of the failed connection otherwise.
C7_ModelKeyNoInstance ==
    (pc # "new" /\ "model" \in DOMAIN ctor.kwargs)
    => /\ pc = "ctor_failed"
       /\ ret.kind = IF ctor.connected THEN "ValueError" ELSE "RuntimeError"

C7_Witness ==
    /\ pc = "ctor_failed"
    /\ "model" \in DOMAIN ctor.kwargs
    /\ "temperature" \in DOMAIN ctor.kwargs
    /\ ctor.connected
    /\ ret.kind = "ValueError"

\* the provider error text the message is to carry: error.message of the
\* body, else message of the body, else the stringified error
ExtractedText(e) ==
    IF e.response = NoneOpt THEN e.text
    ELSE LET body == e.response[1]
         IN  CASE "error" \in DOMAIN body /\ "message" \in DOMAIN body["error"] ->
                       body["error"]["message"]
               [] "error" \notin DOMAIN body /\ "message" \in DOMAIN body ->
                       body["message"]
               [] OTHER -> e.text

\* C8: the RuntimeError raised for a provider error of the request names the
\* model the request was sent to (the per-call "model" if given, else
\* model_name) and carries the extracted provider error text.
C8_MessageNamesModelInUse ==
    (call.op # "none" /\ pc = "done" /\ ret.kind = "RuntimeError")
    => /\ ret.message.model = requests[Len(requests)].model
       /\ ret.message.model =
             IF "model" \in DOMAIN OrEmptyDict(call.model_params)
             THEN OrEmptyDict(call.model_params)["model"]
             ELSE ctor.model_name
       /\ ret.message.underlying = ExtractedText(ret.context[1])

\* C9: the one request of a chat_completion call carries len(chat_history)+1
\* messages: a system message whose content is system_prompt, followed by
\* "\nContext: " and the context's text when a context is given, and then
\* the messages of chat_history in their order.
C9_MessageList ==
    IsChat =>
       /\ Len(requests) = 1
       /\ LET m == requests[1].messages
              h == call.chat_history
          IN  /\ Len(m) = Len(h) + 1
              /\ m[1].role = "system"
              /\ m[1].content =
                    IF call.context = NoneOpt THEN call.system_prompt
                    ELSE call.system_prompt
                            \o <<"\n", "C", "o", "n", "t", "e", "x", "t", ":", " ">>
                            \o call.context[1].content
              /\ \A i \in 1..Len(h) : m[i + 1] = h[i]

C9_Witness ==
    /\ IsChat
    /\ call.context # NoneOpt
    /\ Len(call.chat_history) = 2
    /\ Len(requests) = 1
    /\ Len(requests[1].messages) = 3

\* C10: calls leave the instance's default_model_params and model_name as
\* construction set them and leave the caller's model_params and
\* chat_history as passed; every attempt of one enforced_function_call
\* sends the request of the first attempt.
C10_CallsLeaveStateAlone ==
    /\ pc \notin {"new", "ctor_failed"} =>
          /\ default_model_params = ctor.kwargs
          /\ model_name = ctor.model_name
    /\ call.op # "none" =>
          /\ model_params = call.model_params
          /\ chat_history = call.chat_history
    /\ IsEFC => \A i \in 1..Len(requests) : requests[i] = requests[1]

C10_Witness ==
    /\ IsEFC
    /\ pc = "done"
    /\ Len(requests) = 3
    /\ "model" \in DOMAIN OrEmptyDict(call.model_params)
    /\ "temperature" \in DOMAIN OrEmptyDict(call.model_params)
    /\ "temperature" \in DOMAIN ctor.kwargs

====
